---- MODULE Spec2Model ----
(***************************************************************************)
(* SAL troubleshooting tool (src/tools/sal_troubleshoot_tool.py): device   *)
(* lookup through the SCC directory combined with the last-event table in  *)
(* DynamoDB.  Python dicts are records (a key is present iff it is in the  *)
(* DOMAIN), Python values that may be None are sequences of length <= 1    *)
(* (<<>> is None, <<x>> is x), lists are sequences.                        *)
(*                                                                         *)
(* Conversation memory of the server (src/mcp_server.py over               *)
(* src/sqlite_chat_history.py): the table chat_messages and the sessions   *)
(* of the server.  Spec runs the tool with the conversation memory as      *)
(* constructed; MemorySpec runs the conversation memory with the tool as   *)
(* constructed.                                                            *)
(***************************************************************************)
EXTENDS Integers, Sequences, FiniteSets, TLC

VARIABLES
    scc_tool,                        \* self.scc_tool is set
    dynamodb_tool,                   \* self.dynamodb_tool is set
    default_stream_id,               \* self.default_stream_id
    last_event_table,                \* self.last_event_table
    recent_event_threshold_minutes,  \* self.recent_event_threshold_minutes
    pc,                              \* "idle": no call in progress; "done": a call returned
    request,                         \* the call that returned: its arguments and what the collaborators answered
    calls,                           \* the collaborator calls the call made, in order
    result,                          \* the dict the call returned
    chat_messages,                   \* the rows of table chat_messages, in rowid order
    next_id,                         \* the id AUTOINCREMENT gives to the next row
    clock,                           \* CURRENT_TIMESTAMP, in seconds
    max_messages,                    \* chat_config max_messages, given to every history
    default_session_id,              \* self.default_session_id
    conversation_memory,             \* self.conversation_memory: the session of its chat_memory
    active_sessions,                 \* the keys of self.active_sessions
    last_call                        \* the server call that returned last: its arguments and outcome

tool == <<scc_tool, dynamodb_tool, default_stream_id, last_event_table,
          recent_event_threshold_minutes, pc, request, calls, result>>

memory == <<chat_messages, next_id, clock, max_messages, default_session_id,
            conversation_memory, active_sessions, last_call>>

vars == <<tool, memory>>

config == <<scc_tool, dynamodb_tool, default_stream_id, last_event_table,
            recent_event_threshold_minutes>>

----------------------------------------------------------------------------
(* Bounds of the model *)

MaxTicks == 18        \* epochs are 0, EpochStride, ..., MaxTicks * EpochStride
EpochStride == 59     \* seconds between two sampled epochs
MaxStrLen == 2        \* longest string stored in a last_timestamp field
MaxFound == 3         \* most devices a directory search answers
MaxListed == 5        \* most devices a directory listing answers
DispatchFound == 1    \* most devices the directory answers to a dispatched request
MaxInventory == 2     \* most devices of the listing that is filtered locally

(* Program constants *)

SecondsPerMinute == 60
DefaultThresholdMinutes == 15
HealthyThresholdPercent == 80
ListAllLimit == 100

----------------------------------------------------------------------------
(* Python values *)

None == <<>>
Some(x) == <<x>>

\* Python truthiness of an optional string: None and "" are falsy
Truthy(opt) == opt # None /\ opt # Some("")

\* x or default, for optional strings
OrElse(opt, default) == IF Truthy(opt) THEN opt ELSE Some(default)

\* a // b of Python for b > 0: floor division, also for negative a
FloorDiv(a, b) == a \div b

\* int(x) of a Python float given in tenths: truncation toward zero
TruncTenths(t) == IF t >= 0 THEN t \div 10 ELSE -((-t) \div 10)

Digits == {"0", "1"}
Chars == Digits \cup {"-", "x"}

DigitVal(c) == IF c = "1" THEN 1 ELSE 0

RECURSIVE DigitsVal(_)
DigitsVal(s) ==
    IF s = <<>> THEN 0
    ELSE 10 * DigitsVal(SubSeq(s, 1, Len(s) - 1)) + DigitVal(s[Len(s)])

AllDigits(s) == Len(s) > 0 /\ \A i \in 1..Len(s) : s[i] \in Digits

\* int(s) of a Python str: an optional sign and decimal digits, else ValueError (None here)
ParseIntStr(s) ==
    IF AllDigits(s) THEN Some(DigitsVal(s))
    ELSE IF Len(s) > 1 /\ s[1] = "-" /\ AllDigits(Tail(s)) THEN Some(-DigitsVal(Tail(s)))
    ELSE None

----------------------------------------------------------------------------
(* What the collaborators can answer *)

Epochs == {n * EpochStride : n \in 0..MaxTicks}
MaxEpoch == MaxTicks * EpochStride

\* time.time() as read by _get_current_epoch during one call
ClockReadings == {0, EpochStride, MaxEpoch}

Strings == UNION {[1..n -> Chars] : n \in 0..MaxStrLen}

\* the value of record.get('last_timestamp') after the store's JSON round trip:
\* None (key absent or null), a float (kept in tenths), a float beyond the range of
\* the platform's time_t (such as 1e30), a str, or a non-empty list
TimestampValues ==
    {[kind |-> "absent"], [kind |-> "list"], [kind |-> "beyond_time_t"]}
    \cup {[kind |-> "num", tenths |-> 10 * e] : e \in Epochs}
    \cup {[kind |-> "num", tenths |-> t] : t \in {-5, 5}}
    \cup {[kind |-> "str", chars |-> s] : s \in Strings}

Records == {[last_timestamp |-> v] : v \in TimestampValues}

StoreFailure == [success |-> FALSE, error |-> "query failed"]

\* DynamoDBTool.process_query for an exact-match query: a failure, or zero or one record
StoreResponses ==
    {StoreFailure, [success |-> TRUE, items |-> <<>>]}
    \cup {[success |-> TRUE, items |-> <<r>>] : r \in Records}

StreamIds == {"s1"}
DefaultStreamIds == {"", "s0"}
Uuids == {"u1"}
StreamArgs == {None, Some("")} \cup {Some(s) : s \in StreamIds}
UuidArgs == {None, Some("")} \cup {Some(u) : u \in Uuids}
NameArgs == {None, Some("fw")}

\* a device as SCCTool hands it on: name and uidOnFmc may be None
Devices == {[name |-> Some("fw"), uidOnFmc |-> u] : u \in {None} \cup {Some(x) : x \in Uuids}}

SeqsUpTo(S, n) == UNION {[1..k -> S] : k \in 0..n}

DirectoryFailure == [success |-> FALSE, error |-> "directory unreachable"]

\* SCCTool.process_request: a failure, or at most n devices
DirectoryResponses(n) ==
    {DirectoryFailure} \cup {[success |-> TRUE, items |-> d] : d \in SeqsUpTo(Devices, n)}

\* a device of the listing that find_device filters itself, with the attributes
\* it searches; an attribute the inventory does not have is None
InventoryDevice(name, serial, uidOnFmc) ==
    [name |-> name, serial |-> serial, deviceType |-> Some("FTD"),
     softwareVersion |-> Some("7.4"), uid |-> Some("a1"), uidOnFmc |-> uidOnFmc]
InventoryDevices ==
    {InventoryDevice(Some("PARADISE-2"), Some("JAD1"), Some("u1")),
     InventoryDevice(Some("edge"), Some("Paradise"), None),
     InventoryDevice(Some("edge"), Some("JAD1"), Some("u1")),
     InventoryDevice(None, Some("JAD1"), Some("u1"))}
EmptyListing == [success |-> TRUE, items |-> <<>>]
InventoryResponses ==
    {DirectoryFailure}
    \cup {[success |-> TRUE, items |-> d] : d \in SeqsUpTo(InventoryDevices, MaxInventory)}

\* the answers of the inventory API to the calls of list_devices that one
\* directory request makes: one listing, or the search and, when the search finds
\* nothing, the listing that is filtered locally
ApiAnswers(search_term, n) ==
    IF Truthy(search_term)
    THEN {<<first>> : first \in DirectoryResponses(n) \ {EmptyListing}}
         \cup {<<EmptyListing, second>> : second \in InventoryResponses}
    ELSE {<<listing>> : listing \in DirectoryResponses(n)}

\* the store answers met while a batch of devices is checked
BatchClock == {MaxEpoch}
BatchTimestamps ==
    {[kind |-> "absent"], [kind |-> "num", tenths |-> 10 * EpochStride],
     [kind |-> "num", tenths |-> 10 * MaxEpoch]}
BatchStoreResponses ==
    {StoreFailure, [success |-> TRUE, items |-> <<>>]}
    \cup {[success |-> TRUE, items |-> <<[last_timestamp |-> v]>>] : v \in BatchTimestamps}

\* the store answers met while the devices of a search are checked
TroubleshootStoreResponses ==
    BatchStoreResponses
    \cup {[success |-> TRUE, items |-> <<[last_timestamp |-> [kind |-> "beyond_time_t"]]>>]}

CriteriaArgs == {Some(""), Some("Paradise")}
DefaultLimit == 50
Limits == {0, 2, DefaultLimit}

\* the requests that come in through process_request: a keyword that is not
\* passed is None
Operations ==
    {"troubleshoot_device", "check_all_devices", "check_device_events", "restart_device"}
NoKwargs ==
    [device_criteria |-> None, device_name |-> None, stream_id |-> None,
     device_uuid |-> None, limit |-> None]
KwargsOf(operation) ==
    IF operation = "troubleshoot_device"
    THEN {[NoKwargs EXCEPT !.device_criteria = c, !.device_name = n, !.stream_id = s] :
             c \in {None} \cup CriteriaArgs, n \in {Some("")} \cup NameArgs, s \in StreamArgs}
    ELSE IF operation = "check_all_devices"
    THEN {[NoKwargs EXCEPT !.stream_id = s, !.limit = l] :
             s \in StreamArgs, l \in {None, Some(0), Some(DispatchFound)}}
    ELSE IF operation = "check_device_events"
    THEN {[NoKwargs EXCEPT !.stream_id = s, !.device_uuid = u, !.device_name = n] :
             s \in StreamArgs, u \in UuidArgs, n \in NameArgs}
    ELSE {NoKwargs, [NoKwargs EXCEPT !.device_name = Some("fw"), !.device_uuid = Some("u1")]}

----------------------------------------------------------------------------
(* SCCTool *)

\* the characters of the strings of the inventory and of the search terms
Characters(s) ==
    CASE s = "" -> <<>>
      [] s = "fw" -> <<"f", "w">>
      [] s = "Paradise" -> <<"P", "a", "r", "a", "d", "i", "s", "e">>
      [] s = "PARADISE-2" -> <<"P", "A", "R", "A", "D", "I", "S", "E", "-", "2">>
      [] s = "edge" -> <<"e", "d", "g", "e">>
      [] s = "JAD1" -> <<"J", "A", "D", "1">>
      [] s = "FTD" -> <<"F", "T", "D">>
      [] s = "7.4" -> <<"7", ".", "4">>
      [] s = "a1" -> <<"a", "1">>

UpperCase ==
    <<"A", "B", "C", "D", "E", "F", "G", "H", "I", "J", "K", "L", "M",
      "N", "O", "P", "Q", "R", "S", "T", "U", "V", "W", "X", "Y", "Z">>
LowerCase ==
    <<"a", "b", "c", "d", "e", "f", "g", "h", "i", "j", "k", "l", "m",
      "n", "o", "p", "q", "r", "s", "t", "u", "v", "w", "x", "y", "z">>

\* str.lower()
Lower(chars) ==
    [i \in 1..Len(chars) |->
        IF \E k \in 1..Len(UpperCase) : UpperCase[k] = chars[i]
        THEN LowerCase[CHOOSE k \in 1..Len(UpperCase) : UpperCase[k] = chars[i]]
        ELSE chars[i]]

\* str.find(sub): the lowest index where sub starts, -1 when there is none
Find(chars, sub) ==
    LET starts == {i \in 0..(Len(chars) - Len(sub)) :
                      SubSeq(chars, i + 1, i + Len(sub)) = sub}
    IN  IF starts = {} THEN -1 ELSE CHOOSE i \in starts : \A j \in starts : i <= j

\* lines 147-151: the attributes in the order the or-chain goes through them
SearchedAttributes == <<"name", "serial", "deviceType", "softwareVersion", "uid">>

\* lines 146-152: device_matches from attribute k on; device.get(key, '') is None
\* for an attribute the inventory does not have, and None.lower() raises
RECURSIVE DeviceMatches(_, _, _)
DeviceMatches(device, search_lower, k) ==
    IF k > Len(SearchedAttributes) THEN "no"
    ELSE LET value == device[SearchedAttributes[k]] IN
         IF value = None THEN "raise"
         ELSE IF Find(Lower(Characters(value[1])), search_lower) # -1 THEN "match"
         ELSE DeviceMatches(device, search_lower, k + 1)

\* lines 142-155: the loop over the full listing
RECURSIVE LocalFilter(_, _)
LocalFilter(items, search_lower) ==
    IF items = <<>> THEN [raised |-> FALSE, devices |-> <<>>]
    ELSE LET matches == DeviceMatches(Head(items), search_lower, 1) IN
         IF matches = "raise" THEN [raised |-> TRUE, devices |-> <<>>]
         ELSE LET rest == LocalFilter(Tail(items), search_lower) IN
              IF rest.raised THEN rest
              ELSE [raised |-> FALSE,
                    devices |-> (IF matches = "match" THEN <<Head(items)>> ELSE <<>>)
                                \o rest.devices]

\* lines 157-164
Found(search_term, search_method, devices) ==
    [success |-> TRUE, search_term |-> search_term, search_method |-> search_method,
     devices_found |-> Len(devices), items |-> devices]

\* find_device; api holds the answers of list_devices in the order of the calls
find_device(search_term, api) ==
    LET api_result == api[1] IN
    IF ~api_result.success THEN api_result
    ELSE IF Truthy(search_term) /\ api_result.items = <<>>
    THEN LET full_result == api[2] IN
         IF full_result.success
         THEN LET filtered == LocalFilter(full_result.items,
                                          Lower(Characters(search_term[1])))
              IN  IF filtered.raised
                  THEN [success |-> FALSE,
                        error |-> "'NoneType' object has no attribute 'lower'"]
                  ELSE Found(search_term, "local filtering", filtered.devices)
         ELSE Found(search_term, "API query", <<>>)
    ELSE Found(search_term, "API query", api_result.items)

\* SCCTool.process_request for the two requests the tool makes: 'find' with a
\* search term, 'list' passes the answer of list_devices on
SCCTool_process_request(operation, search_term, api) ==
    IF operation = "find"
    THEN IF ~Truthy(search_term)
         THEN [success |-> FALSE, error |-> "search_term is required for find operation"]
         ELSE find_device(search_term, api)
    ELSE api[1]

----------------------------------------------------------------------------
(* SALTroubleshootTool *)

\* not last_timestamp
TimestampFalsy(v) ==
    CASE v.kind = "absent" -> TRUE
      [] v.kind = "num" -> v.tenths = 0
      [] v.kind = "str" -> v.chars = <<>>
      [] OTHER -> FALSE

\* int(last_timestamp): None stands for ValueError or TypeError
TimestampInt(v) ==
    CASE v.kind = "num" -> Some(TruncTenths(v.tenths))
      [] v.kind = "str" -> ParseIntStr(v.chars)
      [] OTHER -> None

_epoch_to_readable(epoch_timestamp) == <<"%Y-%m-%d %H:%M:%S UTC", epoch_timestamp>>

_minutes_since_epoch(epoch_timestamp, current_epoch) ==
    FloorDiv(current_epoch - epoch_timestamp, SecondsPerMinute)

IsRecentStrict(minutes_since, threshold) == minutes_since < threshold

IsRecent(minutes_since, threshold) == minutes_since <= threshold

\* the last return of check_device_last_event: the timestamp parsed
EvaluatedReport(stream_id, device_uuid, device_name, last_timestamp_epoch, current_epoch) ==
    LET minutes_since == _minutes_since_epoch(last_timestamp_epoch, current_epoch)
        is_recent == IsRecent(minutes_since, recent_event_threshold_minutes)
    IN  [success |-> TRUE,
         device_name |-> OrElse(device_name, "Unknown"),
         device_uuid |-> device_uuid,
         stream_id |-> stream_id,
         status |-> IF is_recent THEN "events_recent" ELSE "events_stale",
         message |-> IF is_recent THEN "Device is actively sending events to SAL"
                                  ELSE "No recent events from device",
         troubleshooting |-> IF is_recent THEN "Device is working correctly"
                                          ELSE "Device may be offline",
         last_event_time |-> Some(_epoch_to_readable(last_timestamp_epoch)),
         last_event_timestamp |-> last_timestamp_epoch,
         minutes_since_last_event |-> Some(minutes_since),
         is_recent |-> is_recent,
         threshold_minutes |-> recent_event_threshold_minutes]

\* the returns of check_device_last_event that carry no minutes
UnevaluatedReport(stream_id, device_uuid, device_name, status, message, troubleshooting) ==
    [success |-> TRUE,
     device_name |-> OrElse(device_name, "Unknown"),
     device_uuid |-> device_uuid,
     stream_id |-> stream_id,
     status |-> status,
     message |-> message,
     troubleshooting |-> troubleshooting,
     last_event_time |-> None,
     minutes_since_last_event |-> None,
     is_recent |-> FALSE]

NoRecordIndexError(stream_id, device_uuid, device_name) ==
    [success |-> FALSE, error |-> "list index out of range"]

\* lines 111-122: the store answered with no record
NoRecordReport(stream_id, device_uuid, device_name) ==
    UnevaluatedReport(stream_id, device_uuid, device_name, "no_events_ever",
        "No events have ever been recorded for this device in SAL",
        "Device may not be properly configured to send events to SAL")

\* lines 129-140: not last_timestamp
MissingTimestampReport(stream_id, device_uuid, device_name) ==
    UnevaluatedReport(stream_id, device_uuid, device_name, "invalid_timestamp",
        "Device record exists but has invalid timestamp",
        "Database record corruption or invalid data format")

ParseFailureUncaught(stream_id, device_uuid, device_name) ==
    [success |-> FALSE, error |-> "invalid literal for int() with base 10"]

\* lines 145-157: int(last_timestamp) raised ValueError or TypeError
ParseFailureReport(stream_id, device_uuid, device_name) ==
    UnevaluatedReport(stream_id, device_uuid, device_name, "invalid_timestamp",
        "Invalid timestamp format",
        "Database timestamp is not in valid epoch format")

FailedLookupAsNoRecord(stream_id, device_uuid, device_name, store) ==
    NoRecordReport(stream_id, device_uuid, device_name)

\* lines 103-104: the failure of the store is returned as it is
FailedLookup(stream_id, device_uuid, device_name, store) == store

\* line 161: datetime.fromtimestamp raises OverflowError for a number beyond the
\* platform's time_t, and _epoch_to_readable catches only ValueError and OSError
ReadableOverflows(v) == v.kind = "beyond_time_t"

\* lines 189-191: the handler of check_device_last_event for any other exception
UnexpectedFailure(stream_id, device_uuid, device_name) ==
    [success |-> FALSE, error |-> "timestamp out of range for platform time_t"]

\* the store is asked only when the tool and the table name are there
StoreReachable == dynamodb_tool /\ last_event_table # ""

\* check_device_last_event; store is what process_query answers when it is called
check_device_last_event(stream_id, device_uuid, device_name, store, current_epoch) ==
    IF ~dynamodb_tool THEN [success |-> FALSE, error |-> "DynamoDB tool not available"]
    ELSE IF last_event_table = ""
        THEN [success |-> FALSE, error |-> "LAST_EVENT_TRACKING_TABLE_PER_DEVICE not configured"]
    ELSE IF ~store.success THEN FailedLookup(stream_id, device_uuid, device_name, store)
    ELSE IF store.items = <<>> THEN NoRecordReport(stream_id, device_uuid, device_name)
    ELSE LET last_timestamp == store.items[1].last_timestamp IN
         IF TimestampFalsy(last_timestamp)
         THEN MissingTimestampReport(stream_id, device_uuid, device_name)
         ELSE IF ReadableOverflows(last_timestamp)
         THEN UnexpectedFailure(stream_id, device_uuid, device_name)
         ELSE IF TimestampInt(last_timestamp) = None
         THEN ParseFailureReport(stream_id, device_uuid, device_name)
         ELSE EvaluatedReport(stream_id, device_uuid, device_name,
                  TimestampInt(last_timestamp)[1], current_epoch)

\* the process_query call of check_device_last_event
StoreQuery(stream_id, device_uuid) ==
    [tool |-> "dynamodb", table_name |-> last_event_table, operation |-> "query",
     partition_value |-> stream_id, sort_value |-> device_uuid]

\* d.get(key, default) of a Python dict
Get(d, key, default) == IF key \in DOMAIN d THEN d[key] ELSE default

CountRecentLeading(device_results) ==
    Cardinality({i \in 1..Len(device_results) :
                    \A k \in 1..i : Get(device_results[k], "is_recent", FALSE)})

\* sum(1 for d in device_results if d.get('is_recent', False))
CountRecent(device_results) ==
    Cardinality({i \in 1..Len(device_results) : Get(device_results[i], "is_recent", FALSE)})

\* sum(1 for d in device_results if d.get('status') == status)
CountStatus(device_results, status) ==
    Cardinality({i \in 1..Len(device_results) : Get(device_results[i], "status", "") = status})

\* the scc_tool.process_request call of find_devices_by_criteria
\* lines 56-64: what the directory answers to the request the tool makes
DirectoryAnswer(device_name, api) ==
    IF Truthy(device_name) THEN SCCTool_process_request("find", device_name, api)
    ELSE SCCTool_process_request("list", None, api)

DirectoryCall(device_name, device_filter) ==
    IF Truthy(device_name)
    THEN [tool |-> "scc", operation |-> "find", search_term |-> device_name]
    ELSE IF Truthy(device_filter)
    THEN [tool |-> "scc", operation |-> "query", lucene_query |-> device_filter]
    ELSE [tool |-> "scc", operation |-> "list", limit |-> ListAllLimit]

\* line 69: devices without uidOnFmc are dropped
ValidDevices(devices) == SelectSeq(devices, LAMBDA d : Truthy(d.uidOnFmc))

\* find_devices_by_criteria; scc is what scc_tool.process_request answers when it is called
find_devices_by_criteria(device_name, device_filter, scc) ==
    IF ~scc_tool THEN [success |-> FALSE, error |-> "SCC tool not available"]
    ELSE IF scc.success
    THEN [success |-> TRUE,
          devices_found |-> Len(ValidDevices(scc.items)),
          devices |-> ValidDevices(scc.items),
          search_criteria |-> IF Truthy(device_name) THEN device_name
                              ELSE OrElse(device_filter, "all devices")]
    ELSE scc

ResolveStreamIdDefaultFirst(stream_id) ==
    IF default_stream_id # "" THEN Some(default_stream_id) ELSE stream_id

\* stream_id after "if not stream_id: stream_id = self.default_stream_id"
ResolveStreamId(stream_id) == IF Truthy(stream_id) THEN stream_id ELSE Some(default_stream_id)

\* the entry appended for a device without uidOnFmc (lines 231-237 and 314-319)
NoUuidEntry(op, device_name) ==
    IF op = "troubleshoot_device"
    THEN [device_name |-> device_name, device_uuid |-> None, status |-> "no_uuid",
          message |-> "Device does not have uidOnFmc (not manageable by FMC)",
          troubleshooting |-> "This device type may not support SAL event streaming"]
    ELSE [device_name |-> device_name, device_uuid |-> None, status |-> "no_uuid",
          is_recent |-> FALSE]

\* the entry appended when check_device_last_event failed (lines 246-252 and 328-333)
ErrorEntry(op, device_name, device_uuid, event_check) ==
    IF op = "troubleshoot_device"
    THEN [device_name |-> device_name, device_uuid |-> device_uuid, status |-> "error",
          message |-> <<"Error checking events", Get(event_check, "error", "Unknown error")>>,
          troubleshooting |-> "Unable to query SAL event tracking table"]
    ELSE [device_name |-> device_name, device_uuid |-> device_uuid, status |-> "error",
          is_recent |-> FALSE]

BreakAfterError(rest) == <<>>

\* after the error entry the loop goes on with the devices that are left
ContinueAfterError(rest) == rest

\* the for loop over devices (lines 226-252 and 309-333); stores are the answers of the
\* store to the queries the loop makes, in order
RECURSIVE CheckDevices(_, _, _, _, _)
CheckDevices(op, devices, stream_id, stores, current_epoch) ==
    IF devices = <<>> THEN <<>>
    ELSE LET device == Head(devices) IN
         IF ~Truthy(device.uidOnFmc)
         THEN <<NoUuidEntry(op, device.name)>>
              \o CheckDevices(op, Tail(devices), stream_id, stores, current_epoch)
         ELSE LET event_check ==
                      check_device_last_event(stream_id, device.uidOnFmc, device.name,
                          IF StoreReachable THEN Head(stores) ELSE StoreFailure, current_epoch)
                  rest == CheckDevices(op, Tail(devices), stream_id,
                              IF StoreReachable THEN Tail(stores) ELSE stores, current_epoch)
              IN  IF event_check.success THEN <<event_check>> \o rest
                  ELSE <<ErrorEntry(op, device.name, device.uidOnFmc, event_check)>>
                       \o ContinueAfterError(rest)

DeviceQueriesRetried(device, stream_id) ==
    IF Truthy(device.uidOnFmc) /\ StoreReachable
    THEN <<StoreQuery(stream_id, device.uidOnFmc), StoreQuery(stream_id, device.uidOnFmc)>>
    ELSE <<>>

\* lines 93-101: the check of one device asks the store once, whatever it answers
DeviceQueries(device, stream_id) ==
    IF Truthy(device.uidOnFmc) /\ StoreReachable
    THEN <<StoreQuery(stream_id, device.uidOnFmc)>> ELSE <<>>

\* the store queries the loop makes, in order
RECURSIVE StoreQueries(_, _)
StoreQueries(devices, stream_id) ==
    IF devices = <<>> THEN <<>>
    ELSE DeviceQueries(Head(devices), stream_id) \o StoreQueries(Tail(devices), stream_id)

TroubleshootOverallAny(recent_devices, total_devices) ==
    IF recent_devices > 0 THEN "healthy" ELSE "issues_detected"

\* line 272
TroubleshootOverall(recent_devices, total_devices) ==
    IF recent_devices = total_devices THEN "healthy" ELSE "issues_detected"

\* lines 254-273
TroubleshootSummary(device_criteria, stream_id, device_results) ==
    LET total_devices == Len(device_results)
        recent_devices == CountRecent(device_results)
    IN  [success |-> TRUE,
         search_criteria |-> device_criteria,
         stream_id |-> stream_id,
         devices_checked |-> total_devices,
         summary |-> [total_devices |-> total_devices,
                      devices_with_recent_events |-> recent_devices,
                      devices_with_stale_events |-> CountStatus(device_results, "events_stale"),
                      devices_with_no_events |-> CountStatus(device_results, "no_events_ever")],
         device_results |-> device_results,
         overall_status |-> TroubleshootOverall(recent_devices, total_devices)]

DeviceNotFoundAsError(device_criteria) ==
    [success |-> FALSE, error |-> <<"No firewall devices found matching criteria", device_criteria>>]

\* lines 205-210
DeviceNotFound(device_criteria) ==
    [success |-> TRUE, status |-> "device_not_found",
     message |-> <<"No firewall devices found matching criteria", device_criteria>>,
     troubleshooting |-> "Check device name spelling or try broader search criteria"]

\* troubleshoot_device; scc and stores are the collaborators' answers
troubleshoot_device(device_criteria, stream_id, scc, stores, current_epoch) ==
    LET device_result == find_devices_by_criteria(device_criteria, None, scc) IN
    IF ~device_result.success THEN device_result
    ELSE IF device_result.devices = <<>>
    THEN DeviceNotFound(device_criteria)
    ELSE IF ~Truthy(ResolveStreamId(stream_id))
    THEN [success |-> FALSE,
          error |-> "Stream ID required but not provided and no default configured (SAL_STREAM_ID)",
          devices_found |-> device_result.devices,
          message |-> "Please provide stream_id parameter or configure SAL_STREAM_ID in environment"]
    ELSE TroubleshootSummary(device_criteria, ResolveStreamId(stream_id),
             CheckDevices("troubleshoot_device", device_result.devices,
                          ResolveStreamId(stream_id), stores, current_epoch))

\* the devices whose events troubleshoot_device checks
TroubleshootDevices(device_criteria, stream_id, scc) ==
    LET device_result == find_devices_by_criteria(device_criteria, None, scc) IN
    IF device_result.success /\ Truthy(ResolveStreamId(stream_id))
    THEN device_result.devices ELSE <<>>

\* round(n / d, 0) of Python for n >= 0, d > 0: to nearest, ties to even
RoundHalfEven(n, d) ==
    LET q == n \div d
        r == n % d
    IN  IF 2 * r > d \/ (2 * r = d /\ q % 2 = 1) THEN q + 1 ELSE q

\* round(recent / total * 100, 2), in hundredths of a percent
HealthyPercentage(recent_devices, total_devices) ==
    IF total_devices > 0 THEN RoundHalfEven(10000 * recent_devices, total_devices) ELSE 0

FleetOverallAtLeast(recent_devices, total_devices) ==
    IF total_devices > 0 /\ 100 * recent_devices >= HealthyThresholdPercent * total_devices
    THEN "healthy" ELSE "issues_detected"

\* line 357: recent / total * 100 > 80, with healthy_percentage 0 for no devices
FleetOverall(recent_devices, total_devices) ==
    IF total_devices > 0 /\ 100 * recent_devices > HealthyThresholdPercent * total_devices
    THEN "healthy" ELSE "issues_detected"

_generate_recommendations_stale_first(device_results) ==
    LET no_events_count == CountStatus(device_results, "no_events_ever")
        stale_count == CountStatus(device_results, "events_stale")
    IN  (IF stale_count > 0
         THEN <<<<stale_count, "devices have stale events">>>> ELSE <<>>)
        \o (IF no_events_count > 0
            THEN <<<<no_events_count, "devices have never sent events">>>> ELSE <<>>)
        \o (IF no_events_count = 0 /\ stale_count = 0
            THEN <<<<0, "All devices are sending recent events to SAL - system is healthy">>>>
            ELSE <<>>)

_generate_recommendations(device_results) ==
    LET no_events_count == CountStatus(device_results, "no_events_ever")
        stale_count == CountStatus(device_results, "events_stale")
    IN  (IF no_events_count > 0
         THEN <<<<no_events_count, "devices have never sent events">>>> ELSE <<>>)
        \o (IF stale_count > 0
            THEN <<<<stale_count, "devices have stale events">>>> ELSE <<>>)
        \o (IF no_events_count = 0 /\ stale_count = 0
            THEN <<<<0, "All devices are sending recent events to SAL - system is healthy">>>>
            ELSE <<>>)

\* lines 335-359
FleetSummary(stream_id, device_results) ==
    LET total_devices == Len(device_results)
        recent_devices == CountRecent(device_results)
    IN  [success |-> TRUE,
         stream_id |-> stream_id,
         devices_checked |-> total_devices,
         summary |-> [total_devices |-> total_devices,
                      devices_with_recent_events |-> recent_devices,
                      devices_with_stale_events |-> CountStatus(device_results, "events_stale"),
                      devices_with_no_events |-> CountStatus(device_results, "no_events_ever"),
                      devices_with_errors |-> CountStatus(device_results, "error"),
                      healthy_percentage |-> HealthyPercentage(recent_devices, total_devices)],
         device_results |-> device_results,
         overall_status |-> FleetOverall(recent_devices, total_devices),
         recommendations |-> _generate_recommendations(device_results)]

\* devices[:limit] of Python for limit >= 0
Take(devices, limit) == SubSeq(devices, 1, IF limit < Len(devices) THEN limit ELSE Len(devices))

\* the devices whose events check_all_devices_status checks
FleetDevices(stream_id, limit, scc) ==
    LET device_result == find_devices_by_criteria(None, None, scc) IN
    IF Truthy(ResolveStreamId(stream_id)) /\ device_result.success
    THEN Take(device_result.devices, limit) ELSE <<>>

NoDevicesAsSummary(stream_id) == FleetSummary(stream_id, <<>>)

\* lines 298-303: the early return for an empty list of devices
NoDevices(stream_id) ==
    [success |-> TRUE, status |-> "no_devices", message |-> "No firewall devices found in SCC"]

\* check_all_devices_status; scc and stores are the collaborators' answers
check_all_devices_status(stream_id, limit, scc, stores, current_epoch) ==
    IF ~Truthy(ResolveStreamId(stream_id))
    THEN [success |-> FALSE,
          error |-> "Stream ID required but not provided and no default configured (SAL_STREAM_ID)"]
    ELSE LET device_result == find_devices_by_criteria(None, None, scc) IN
         IF ~device_result.success THEN device_result
         ELSE IF Take(device_result.devices, limit) = <<>>
         THEN NoDevices(ResolveStreamId(stream_id))
         ELSE FleetSummary(ResolveStreamId(stream_id),
                  CheckDevices("check_all_devices_status", Take(device_result.devices, limit),
                               ResolveStreamId(stream_id), stores, current_epoch))

\* kwargs.get(key, default)
KwargsGet(value, default) == IF value = None THEN Some(default) ELSE value

DeviceCriteriaNameFirst(kwargs) ==
    IF Truthy(KwargsGet(kwargs.device_name, "")) THEN kwargs.device_name
    ELSE kwargs.device_criteria

\* line 387: kwargs.get('device_criteria') or kwargs.get('device_name', '')
DeviceCriteria(kwargs) ==
    IF Truthy(kwargs.device_criteria) THEN kwargs.device_criteria
    ELSE KwargsGet(kwargs.device_name, "")

ValidOperations == <<"troubleshoot_device", "check_all_devices", "check_device_events">>

UnsupportedOperationUnnamed(operation) ==
    [success |-> FALSE, error |-> "Unsupported operation", operation |-> operation,
     available |-> <<>>]

\* lines 412-413: the error names the operation asked for and the valid ones
UnsupportedOperation(operation) ==
    [success |-> FALSE, error |-> "Unsupported operation", operation |-> operation,
     available |-> ValidOperations]

\* lines 386-413: the method process_request hands the request to, with its
\* arguments, or the failure it returns without calling one
Dispatch(operation, kwargs) ==
    IF operation = "troubleshoot_device"
    THEN IF ~Truthy(DeviceCriteria(kwargs))
         THEN [op |-> "none",
               result |-> [success |-> FALSE,
                           error |-> "device_criteria or device_name is required"]]
         ELSE [op |-> "troubleshoot_device", device_criteria |-> DeviceCriteria(kwargs),
               stream_id |-> kwargs.stream_id]
    ELSE IF operation = "check_all_devices"
    THEN [op |-> "check_all_devices_status", stream_id |-> kwargs.stream_id,
          limit |-> KwargsGet(kwargs.limit, DefaultLimit)[1]]
    ELSE IF operation = "check_device_events"
    THEN LET stream_id == OrElse(kwargs.stream_id, default_stream_id) IN
         IF ~Truthy(stream_id)
         THEN [op |-> "none", result |-> [success |-> FALSE, error |-> "stream_id is required"]]
         ELSE IF ~Truthy(kwargs.device_uuid)
         THEN [op |-> "none", result |-> [success |-> FALSE, error |-> "device_uuid is required"]]
         ELSE [op |-> "check_device_last_event", stream_id |-> stream_id,
               device_uuid |-> kwargs.device_uuid,
               device_name |-> KwargsGet(kwargs.device_name, "Unknown")]
    ELSE [op |-> "none", result |-> UnsupportedOperation(operation)]

\* process_request; scc and stores are the collaborators' answers
process_request(operation, kwargs, scc, stores, current_epoch) ==
    LET target == Dispatch(operation, kwargs) IN
    IF target.op = "troubleshoot_device"
    THEN troubleshoot_device(target.device_criteria, target.stream_id, scc, stores,
                             current_epoch)
    ELSE IF target.op = "check_all_devices_status"
    THEN check_all_devices_status(target.stream_id, target.limit, scc, stores, current_epoch)
    ELSE IF target.op = "check_device_last_event"
    THEN check_device_last_event(target.stream_id, target.device_uuid, target.device_name,
                                 IF stores = <<>> THEN StoreFailure ELSE stores[1],
                                 current_epoch)
    ELSE target.result

----------------------------------------------------------------------------
(* Conversation memory: src/sqlite_chat_history.py and src/mcp_server.py *)

(* Bounds of the conversation memory *)

MaxRowId == 4         \* ids given by AUTOINCREMENT are 1 .. MaxRowId
MaxClock == 1         \* CURRENT_TIMESTAMP is one of the seconds 0 .. MaxClock
MaxLimit == 4         \* max_messages is one of 0 .. MaxLimit

(* Program constants *)

DefaultSession == "main_session"
ConfiguredMaxMessages == 100

\* the session ids the server is called with
SessionIds == {DefaultSession, "test_session"}

\* the session_id argument of a call: None or a session id
SessionArgs == {None} \cup {Some(s) : s \in SessionIds}

\* the settings of max_messages; 0 is unlimited
MaxMessagesSettings == 0 .. MaxLimit

\* the prompt of a call and the answer of the model
Prompts == {"prompt"}
Responses == {"response"}

\* the database: the rows of chat_messages in rowid order and the next AUTOINCREMENT id
Database(rows, id) == [chat_messages |-> rows, next_id |-> id]

\* INSERT INTO chat_messages: id from AUTOINCREMENT, created_at from CURRENT_TIMESTAMP
Insert(db, session_id, message_type, content, created_at) ==
    Database(Append(db.chat_messages,
                    [id |-> db.next_id, session_id |-> session_id,
                     message_type |-> message_type, content |-> content,
                     created_at |-> created_at]),
             db.next_id + 1)

\* WHERE session_id = ?, rows in scan order
WhereSession(rows, session_id) == SelectSeq(rows, LAMBDA row : row.session_id = session_id)

\* a sorted sequence with one more row: the row goes behind the rows that are not later
RECURSIVE InsertByCreatedAt(_, _)
InsertByCreatedAt(sorted, row) ==
    IF sorted = <<>> THEN <<row>>
    ELSE IF sorted[Len(sorted)].created_at <= row.created_at THEN Append(sorted, row)
    ELSE Append(InsertByCreatedAt(SubSeq(sorted, 1, Len(sorted) - 1), row), sorted[Len(sorted)])

\* ORDER BY created_at ASC: rows of one second stay in scan order
RECURSIVE OrderByCreatedAt(_)
OrderByCreatedAt(rows) ==
    IF rows = <<>> THEN <<>>
    ELSE InsertByCreatedAt(OrderByCreatedAt(SubSeq(rows, 1, Len(rows) - 1)), rows[Len(rows)])

\* LIMIT n
Limit(rows, n) == SubSeq(rows, 1, IF n < Len(rows) THEN n ELSE Len(rows))

\* the ids of rows
Ids(rows) == {rows[i].id : i \in 1 .. Len(rows)}

\* the mutant of _enforce_message_limit: the newest rows are deleted
_enforce_message_limit_newest(db, session_id, limit) ==
    LET ordered == OrderByCreatedAt(WhereSession(db.chat_messages, session_id))
        current_count == Len(ordered)
        newest == Ids(SubSeq(ordered, limit + 1, current_count))
    IN IF current_count > limit
       THEN Database(SelectSeq(db.chat_messages, LAMBDA row : row.id \notin newest), db.next_id)
       ELSE db

\* _enforce_message_limit of the history of session_id
_enforce_message_limit(db, session_id, limit) ==
    LET current_count == Len(WhereSession(db.chat_messages, session_id))
        messages_to_delete == current_count - limit
        oldest == Ids(Limit(OrderByCreatedAt(WhereSession(db.chat_messages, session_id)),
                            messages_to_delete))
    IN IF current_count > limit
       THEN Database(SelectSeq(db.chat_messages, LAMBDA row : row.id \notin oldest), db.next_id)
       ELSE db

\* add_message of the history of session_id
add_message(db, session_id, message_type, content, created_at, limit) ==
    LET inserted == Insert(db, session_id, message_type, content, created_at) IN
    IF limit > 0 THEN _enforce_message_limit(inserted, session_id, limit) ELSE inserted

\* _dict_to_message: the class and the content of the stored message
_dict_to_message(row) ==
    [class |-> IF row.message_type \in {"HumanMessage", "AIMessage", "SystemMessage"}
               THEN row.message_type ELSE "HumanMessage",
     content |-> row.content]

\* the rows property messages reads, in the order it reads them
StoredRows(rows, session_id) == OrderByCreatedAt(WhereSession(rows, session_id))

\* property messages of the history of session_id
messages(rows, session_id) ==
    LET stored == StoredRows(rows, session_id) IN
    [i \in 1 .. Len(stored) |-> _dict_to_message(stored[i])]

\* the mutant of clear: DELETE without the WHERE clause
ClearAllSessions(db, session_id) == Database(<<>>, db.next_id)

\* clear of the history of session_id
clear(db, session_id) ==
    Database(SelectSeq(db.chat_messages, LAMBDA row : row.session_id # session_id), db.next_id)

\* session_id or self.default_session_id
SessionOrDefault(session_id, default) == IF Truthy(session_id) THEN session_id[1] ELSE default

\* ConversationBufferMemory.save_context: the input and the output go to chat_memory
save_context(db, chat_memory, input, output, created_at, limit) ==
    add_message(add_message(db, chat_memory, "HumanMessage", input, created_at, limit),
                chat_memory, "AIMessage", output, created_at, limit)

\* ConversationBufferMemory.clear: chat_memory is cleared
MemoryClear(db, chat_memory) == clear(db, chat_memory)

\* add_to_conversation
add_to_conversation(db, user_message, ai_response, session_id, default, memory_of, created_at, limit) ==
    LET session == SessionOrDefault(session_id, default)
        stored == add_message(add_message(db, session, "HumanMessage", user_message,
                                          created_at, limit),
                              session, "AIMessage", ai_response, created_at, limit)
    IN IF session = default
       THEN save_context(stored, memory_of, user_message, ai_response, created_at, limit)
       ELSE stored

\* clear_conversation
clear_conversation(db, session_id, default, memory_of) ==
    LET session == SessionOrDefault(session_id, default)
        cleared == clear(db, session)
    IN IF session = default THEN MemoryClear(cleared, memory_of) ELSE cleared

\* get_conversation_history
get_conversation_history(rows, session_id, default) ==
    LET read == messages(rows, SessionOrDefault(session_id, default)) IN
    [i \in 1 .. Len(read) |->
        [role |-> IF read[i].class = "HumanMessage" THEN "user" ELSE "assistant",
         content |-> read[i].content]]

\* get_conversation_summary
get_conversation_summary(rows, session_id, default) ==
    LET session == SessionOrDefault(session_id, default)
        history == get_conversation_history(rows, Some(session), default)
        message_count == Len(history)
    IN [session_id |-> session, message_count |-> message_count,
        exchange_count |-> message_count \div 2, has_history |-> message_count > 0]

\* the state of the conversation memory after construction
MemoryConstructed ==
    /\ chat_messages = <<>>
    /\ next_id = 1
    /\ clock = 0
    /\ default_session_id = DefaultSession
    /\ conversation_memory = [chat_memory |-> DefaultSession]
    /\ active_sessions = {DefaultSession}
    /\ last_call = <<>>

----------------------------------------------------------------------------
(* Actions *)

Init ==
    /\ scc_tool \in BOOLEAN
    /\ dynamodb_tool \in BOOLEAN
    /\ default_stream_id \in DefaultStreamIds
    /\ last_event_table \in {"", "last_event_table"}
    /\ recent_event_threshold_minutes = DefaultThresholdMinutes
    /\ pc = "idle"
    /\ request = <<>>
    /\ calls = <<>>
    /\ result = <<>>
    /\ MemoryConstructed
    /\ max_messages = ConfiguredMaxMessages

\* one call of check_device_last_event
CheckDeviceLastEvent ==
    /\ pc = "idle"
    /\ \E stream_id \in StreamArgs, device_uuid \in UuidArgs, device_name \in NameArgs,
          current_epoch \in ClockReadings :
       \E store \in IF StoreReachable THEN StoreResponses ELSE {StoreFailure} :
          /\ request' = [op |-> "check_device_last_event", stream_id |-> stream_id,
                         device_uuid |-> device_uuid, device_name |-> device_name,
                         current_epoch |-> current_epoch,
                         store |-> IF StoreReachable THEN <<store>> ELSE <<>>]
          /\ calls' = IF StoreReachable THEN <<StoreQuery(stream_id, device_uuid)>> ELSE <<>>
          /\ result' = check_device_last_event(stream_id, device_uuid, device_name,
                                               store, current_epoch)
    /\ pc' = "done"
    /\ UNCHANGED <<config, memory>>

\* one call of troubleshoot_device
TroubleshootDevice ==
    /\ pc = "idle"
    /\ \E device_criteria \in CriteriaArgs, stream_id \in StreamArgs, current_epoch \in BatchClock :
       \E api \in IF scc_tool THEN ApiAnswers(device_criteria, MaxFound)
                            ELSE {<<DirectoryFailure>>} :
       LET scc == DirectoryAnswer(device_criteria, api)
           devices == TroubleshootDevices(device_criteria, stream_id, scc)
           queries == StoreQueries(devices, ResolveStreamId(stream_id))
       IN  \E stores \in [1..Len(queries) -> TroubleshootStoreResponses] :
              /\ request' = [op |-> "troubleshoot_device", device_criteria |-> device_criteria,
                             stream_id |-> stream_id, current_epoch |-> current_epoch,
                             api |-> IF scc_tool THEN api ELSE <<>>,
                             scc |-> IF scc_tool THEN <<scc>> ELSE <<>>, store |-> stores]
              /\ calls' = (IF scc_tool THEN <<DirectoryCall(device_criteria, None)>> ELSE <<>>)
                          \o queries
              /\ result' = troubleshoot_device(device_criteria, stream_id, scc, stores,
                                               current_epoch)
    /\ pc' = "done"
    /\ UNCHANGED <<config, memory>>

\* one call of check_all_devices_status
CheckAllDevicesStatus ==
    /\ pc = "idle"
    /\ \E stream_id \in StreamArgs, limit \in Limits, current_epoch \in BatchClock :
       LET asked == scc_tool /\ Truthy(ResolveStreamId(stream_id)) IN
       \E scc \in IF asked THEN DirectoryResponses(MaxListed) ELSE {DirectoryFailure} :
       LET devices == FleetDevices(stream_id, limit, scc)
           queries == StoreQueries(devices, ResolveStreamId(stream_id))
       IN  \E stores \in [1..Len(queries) -> BatchStoreResponses] :
              /\ request' = [op |-> "check_all_devices_status", stream_id |-> stream_id,
                             limit |-> limit, current_epoch |-> current_epoch,
                             api |-> IF asked THEN <<scc>> ELSE <<>>,
                             scc |-> IF asked THEN <<scc>> ELSE <<>>, store |-> stores]
              /\ calls' = (IF asked THEN <<DirectoryCall(None, None)>> ELSE <<>>) \o queries
              /\ result' = check_all_devices_status(stream_id, limit, scc, stores,
                                                    current_epoch)
    /\ pc' = "done"
    /\ UNCHANGED <<config, memory>>

\* one call of process_request
ProcessRequest ==
    /\ pc = "idle"
    /\ \E operation \in Operations : \E kwargs \in KwargsOf(operation),
                                         current_epoch \in BatchClock :
       LET target == Dispatch(operation, kwargs)
           asked == /\ scc_tool
                    /\ \/ target.op = "troubleshoot_device"
                       \/ /\ target.op = "check_all_devices_status"
                          /\ Truthy(ResolveStreamId(target.stream_id))
       IN
       \E api \in IF asked
                  THEN ApiAnswers(IF target.op = "troubleshoot_device"
                                  THEN target.device_criteria ELSE None, DispatchFound)
                  ELSE {<<DirectoryFailure>>} :
       LET scc == DirectoryAnswer(IF target.op = "troubleshoot_device"
                                  THEN target.device_criteria ELSE None, api)
           queries ==
               IF target.op = "troubleshoot_device"
               THEN StoreQueries(TroubleshootDevices(target.device_criteria,
                                                     target.stream_id, scc),
                                 ResolveStreamId(target.stream_id))
               ELSE IF target.op = "check_all_devices_status"
               THEN StoreQueries(FleetDevices(target.stream_id, target.limit, scc),
                                 ResolveStreamId(target.stream_id))
               ELSE IF target.op = "check_device_last_event" /\ StoreReachable
               THEN <<StoreQuery(target.stream_id, target.device_uuid)>>
               ELSE <<>>
       IN  \E stores \in [1..Len(queries) -> BatchStoreResponses] :
              /\ request' = [op |-> "process_request", operation |-> operation,
                             kwargs |-> kwargs, current_epoch |-> current_epoch,
                             api |-> IF asked THEN api ELSE <<>>,
                             scc |-> IF asked THEN <<scc>> ELSE <<>>, store |-> stores]
              /\ calls' = (IF ~asked THEN <<>>
                           ELSE IF target.op = "troubleshoot_device"
                           THEN <<DirectoryCall(target.device_criteria, None)>>
                           ELSE <<DirectoryCall(None, None)>>)
                          \o queries
              /\ result' = process_request(operation, kwargs, scc, stores, current_epoch)
    /\ pc' = "done"
    /\ UNCHANGED <<config, memory>>

\* the result is handed to the caller and the tool is ready for the next call
Return ==
    /\ pc = "done"
    /\ pc' = "idle"
    /\ request' = <<>>
    /\ calls' = <<>>
    /\ result' = <<>>
    /\ UNCHANGED <<config, memory>>

Next ==
    CheckDeviceLastEvent \/ TroubleshootDevice \/ CheckAllDevicesStatus \/ ProcessRequest
        \/ Return

Spec == Init /\ [][Next]_vars

----------------------------------------------------------------------------
(* Actions of the conversation memory *)

\* the tool as constructed without collaborators; no call of the tool is made
ToolConstructed ==
    /\ scc_tool = FALSE
    /\ dynamodb_tool = FALSE
    /\ default_stream_id = ""
    /\ last_event_table = ""
    /\ recent_event_threshold_minutes = DefaultThresholdMinutes
    /\ pc = "idle"
    /\ request = <<>>
    /\ calls = <<>>
    /\ result = <<>>

MemoryInit ==
    /\ ToolConstructed
    /\ MemoryConstructed
    /\ max_messages \in MaxMessagesSettings

\* the database of the state
Db == Database(chat_messages, next_id)

\* the number of rows session has in the table
Stored(session) == Len(WhereSession(chat_messages, session))

\* the database becomes db; AUTOINCREMENT stays within the ids of the model
Commit(db) ==
    /\ db.next_id <= MaxRowId + 1
    /\ chat_messages' = db.chat_messages
    /\ next_id' = db.next_id

\* _get_session_history: the history of session is in self.active_sessions afterwards
_get_session_history(session) == active_sessions' = active_sessions \cup {session}

\* what last_call records of a call for session
Returned(op, session, success) ==
    last_call' = [op |-> op, session_id |-> session, success |-> success,
                  stored_before |-> Stored(session)]

\* CURRENT_TIMESTAMP reaches the next second
Tick ==
    /\ clock < MaxClock
    /\ clock' = clock + 1
    /\ UNCHANGED <<tool, chat_messages, next_id, max_messages, default_session_id,
                   conversation_memory, active_sessions, last_call>>

\* add_message of the history of an active session, with one message
AddMessageCall(session, message_type, content) ==
    /\ session \in active_sessions
    /\ Commit(add_message(Db, session, message_type, content, clock, max_messages))
    /\ Returned("add_message", session, TRUE)
    /\ UNCHANGED <<tool, clock, max_messages, default_session_id, conversation_memory,
                   active_sessions>>

AddMessage ==
    \E session \in SessionIds, message_type \in {"HumanMessage"}, content \in Prompts :
        AddMessageCall(session, message_type, content)

\* add_to_conversation(user_message, ai_response, session_id)
AddToConversationCall(user_message, ai_response, session_id) ==
    LET session == SessionOrDefault(session_id, default_session_id) IN
    /\ Commit(add_to_conversation(Db, user_message, ai_response, session_id,
                                  default_session_id, conversation_memory.chat_memory,
                                  clock, max_messages))
    /\ _get_session_history(session)
    /\ Returned("add_to_conversation", session, TRUE)
    /\ UNCHANGED <<tool, clock, max_messages, default_session_id, conversation_memory>>

AddToConversation ==
    \E user_message \in Prompts, ai_response \in Responses, session_id \in SessionArgs :
        AddToConversationCall(user_message, ai_response, session_id)

\* _handle_llm_chat(prompt=prompt, session_id=session_id); answer is what llm.invoke
\* gives: None when it raises
HandleLlmChatCall(prompt, session_id, answer) ==
    LET session == SessionOrDefault(session_id, default_session_id) IN
    IF ~Truthy(prompt)
    THEN /\ Returned("_handle_llm_chat", session, FALSE)
         /\ UNCHANGED <<tool, chat_messages, next_id, clock, max_messages,
                        default_session_id, conversation_memory, active_sessions>>
    ELSE IF answer = None
    THEN /\ _get_session_history(session)
         /\ Returned("_handle_llm_chat", session, FALSE)
         /\ UNCHANGED <<tool, chat_messages, next_id, clock, max_messages,
                        default_session_id, conversation_memory>>
    ELSE /\ Commit(add_to_conversation(Db, prompt[1], answer[1], session_id,
                                       default_session_id, conversation_memory.chat_memory,
                                       clock, max_messages))
         /\ _get_session_history(session)
         /\ Returned("_handle_llm_chat", session, TRUE)
         /\ UNCHANGED <<tool, clock, max_messages, default_session_id, conversation_memory>>

HandleLlmChat ==
    \E prompt \in {None} \cup {Some(p) : p \in Prompts}, session_id \in SessionArgs,
       answer \in {None} \cup {Some(r) : r \in Responses} :
        HandleLlmChatCall(prompt, session_id, answer)

\* chat_with_memory_chain(user_input, session_id=session_id); answer is what
\* chain.invoke gives: None when it raises
ChatWithMemoryChainCall(user_input, session_id, answer) ==
    LET session == SessionOrDefault(session_id, default_session_id) IN
    IF answer = None
    THEN /\ Returned("chat_with_memory_chain", session, FALSE)
         /\ UNCHANGED <<tool, chat_messages, next_id, clock, max_messages,
                        default_session_id, conversation_memory, active_sessions>>
    ELSE /\ Commit(add_to_conversation(
                       save_context(Db, conversation_memory.chat_memory, user_input,
                                    answer[1], clock, max_messages),
                       user_input, answer[1], session_id, default_session_id,
                       conversation_memory.chat_memory, clock, max_messages))
         /\ _get_session_history(session)
         /\ Returned("chat_with_memory_chain", session, TRUE)
         /\ UNCHANGED <<tool, clock, max_messages, default_session_id, conversation_memory>>

ChatWithMemoryChain ==
    \E user_input \in Prompts, session_id \in SessionArgs,
       answer \in {None} \cup {Some(r) : r \in Responses} :
        ChatWithMemoryChainCall(user_input, session_id, answer)

\* clear_conversation(session_id)
ClearConversationCall(session_id) ==
    LET session == SessionOrDefault(session_id, default_session_id) IN
    /\ Commit(clear_conversation(Db, session_id, default_session_id,
                                 conversation_memory.chat_memory))
    /\ _get_session_history(session)
    /\ Returned("clear_conversation", session, TRUE)
    /\ UNCHANGED <<tool, clock, max_messages, default_session_id, conversation_memory>>

ClearConversation == \E session_id \in SessionArgs : ClearConversationCall(session_id)

\* get_conversation_summary(session_id)
GetConversationSummary ==
    \E session_id \in SessionArgs :
        LET session == SessionOrDefault(session_id, default_session_id) IN
        /\ _get_session_history(session)
        /\ Returned("get_conversation_summary", session, TRUE)
        /\ UNCHANGED <<tool, chat_messages, next_id, clock, max_messages,
                       default_session_id, conversation_memory>>

\* switch_session(session_id)
SwitchSession ==
    \E session_id \in SessionIds :
        /\ default_session_id' = session_id
        /\ _get_session_history(session_id)
        /\ conversation_memory' = [chat_memory |-> session_id]
        /\ Returned("switch_session", session_id, TRUE)
        /\ UNCHANGED <<tool, chat_messages, next_id, clock, max_messages>>

MemoryNext ==
    Tick \/ AddMessage \/ AddToConversation \/ HandleLlmChat \/ ChatWithMemoryChain
        \/ ClearConversation \/ GetConversationSummary \/ SwitchSession

MemorySpec == MemoryInit /\ [][MemoryNext]_vars

----------------------------------------------------------------------------
(* Properties of check_device_last_event *)

\* a call of check_device_last_event returned
Checked == pc = "done" /\ request.op = "check_device_last_event"

\* the call asked the store and the store answered with one record
RecordFound ==
    /\ Checked
    /\ request.store # <<>>
    /\ request.store[1].success
    /\ request.store[1].items # <<>>

\* the last_timestamp of that record
FoundTimestamp == request.store[1].items[1].last_timestamp

\* a stored timestamp that is missing or that int() rejects
Unparseable(v) ==
    \/ v.kind \in {"absent", "list"}
    \/ v.kind = "str" /\ ParseIntStr(v.chars) = None

\* a stored timestamp that is an integer: an integral number or an integer literal
IntegerValued(v) ==
    \/ v.kind = "num" /\ v.tenths % 10 = 0
    \/ v.kind = "str" /\ ParseIntStr(v.chars) # None

IntegerValue(v) == IF v.kind = "num" THEN v.tenths \div 10 ELSE ParseIntStr(v.chars)[1]

\* C1: a report that carries minutes m is recent exactly when m <= threshold, its
\* status is events_recent when it is recent and events_stale when it is not, and
\* no report without minutes is recent or has one of these two statuses.
C1_RecentIffWithinThreshold ==
    (Checked /\ result.success) =>
        IF result.minutes_since_last_event # None
        THEN LET m == result.minutes_since_last_event[1]
                 T == recent_event_threshold_minutes
             IN  /\ result.is_recent = (m <= T)
                 /\ result.status = IF m <= T THEN "events_recent" ELSE "events_stale"
                 /\ result.threshold_minutes = T
        ELSE /\ ~result.is_recent
             /\ result.status \notin {"events_recent", "events_stale"}

\* the boundary: a device last seen exactly threshold minutes ago is recent
C1_Witness ==
    /\ Checked
    /\ result.success
    /\ result.minutes_since_last_event = Some(recent_event_threshold_minutes)
    /\ result.status = "events_recent"

\* C2: a record whose timestamp is missing or does not parse as an integer gives a
\* successful report with status invalid_timestamp, not recent, without minutes.
C2_UnparseableIsInvalidTimestamp ==
    (RecordFound /\ Unparseable(FoundTimestamp)) =>
        /\ result.success
        /\ result.status = "invalid_timestamp"
        /\ ~result.is_recent
        /\ result.minutes_since_last_event = None

\* a stored non-empty string that is no integer literal was reported
C2_Witness ==
    /\ RecordFound
    /\ FoundTimestamp.kind = "str"
    /\ FoundTimestamp.chars # <<>>
    /\ ParseIntStr(FoundTimestamp.chars) = None
    /\ result.success
    /\ result.status = "invalid_timestamp"

\* C3: a record whose timestamp is an integer e (0 included) gives events_recent or
\* events_stale, never invalid_timestamp, with minutes m = floor((now - e) / 60),
\* that is 60 * m <= now - e < 60 * (m + 1).
C3_IntegerTimestampIsEvaluated ==
    (RecordFound /\ IntegerValued(FoundTimestamp)) =>
        /\ result.success
        /\ result.status \in {"events_recent", "events_stale"}
        /\ result.minutes_since_last_event # None
        /\ LET m == result.minutes_since_last_event[1]
               elapsed == request.current_epoch - IntegerValue(FoundTimestamp)
           IN  SecondsPerMinute * m <= elapsed /\ elapsed < SecondsPerMinute * (m + 1)

\* C4: when the store answers successfully with no record the report is
\* no_events_ever, not recent and without minutes, whatever the clock reads.
C4_NoRecordIsNoEventsEver ==
    (Checked /\ request.store # <<>> /\ request.store[1].success
             /\ request.store[1].items = <<>>) =>
        /\ result.success
        /\ result.status = "no_events_ever"
        /\ ~result.is_recent
        /\ result.minutes_since_last_event = None

\* the store had no record when the clock read its latest value
C4_Witness ==
    /\ Checked
    /\ request.store # <<>>
    /\ request.store[1].success
    /\ request.store[1].items = <<>>
    /\ request.current_epoch = MaxEpoch
    /\ result.status = "no_events_ever"

----------------------------------------------------------------------------
(* Properties of troubleshoot_device and check_all_devices_status *)

Troubleshot == pc = "done" /\ request.op = "troubleshoot_device"
FleetChecked == pc = "done" /\ request.op = "check_all_devices_status"

\* the directory was asked and answered with a list of devices
DirectoryAnswered == request.scc # <<>> /\ request.scc[1].success

\* the devices of that answer
Listed == request.scc[1].items

HasUuid(d) == d.uidOnFmc # None /\ d.uidOnFmc # Some("")

\* a stream id was given or a default is configured
StreamAvailable ==
    \/ request.stream_id # None /\ request.stream_id # Some("")
    \/ default_stream_id # ""

\* the argument when one is given, the configured default otherwise
ExpectedStream ==
    IF request.stream_id # None /\ request.stream_id # Some("")
    THEN request.stream_id ELSE Some(default_stream_id)

\* the devices the batch goes through: those of the answer that carry uidOnFmc,
\* the first limit of them for check_all_devices_status
Enumerated ==
    LET tracked == SelectSeq(Listed, HasUuid)
    IN  IF request.op = "check_all_devices_status" /\ request.limit < Len(tracked)
        THEN SubSeq(tracked, 1, request.limit) ELSE tracked

\* the store queries among the calls made
StoreCalls == SelectSeq(calls, LAMBDA c : c.tool = "dynamodb")

\* C5: in troubleshoot_device every device the directory search matched gets an
\* entry, and a matched device without uidOnFmc gets the entry no_uuid, counted
\* in devices_checked, while the devices with uidOnFmc are checked as usual.
C5_NoUuidDeviceIsReported ==
    (/\ Troubleshot
     /\ DirectoryAnswered
     /\ StreamAvailable
     /\ \E i \in 1..Len(Listed) : ~HasUuid(Listed[i])) =>
        /\ result.success
        /\ "device_results" \in DOMAIN result
        /\ result.devices_checked = Len(Listed)
        /\ Len(result.device_results) = Len(Listed)
        /\ \A i \in 1..Len(Listed) :
              (result.device_results[i].status = "no_uuid") <=> ~HasUuid(Listed[i])

\* C6: a batch over the enumerated devices returns one entry per device in order;
\* the entry is error for the devices whose store lookup failed, and every other
\* entry is what that device's own lookup gives: its report, or the error entry
\* when the check of its own record failed.
C6_StoreFailureStaysLocal ==
    (/\ Troubleshot \/ FleetChecked
     /\ DirectoryAnswered
     /\ StreamAvailable
     /\ Enumerated # <<>>) =>
        /\ result.success
        /\ "device_results" \in DOMAIN result
        /\ result.devices_checked = Len(Enumerated)
        /\ Len(result.device_results) = Len(Enumerated)
        /\ \A i \in 1..Len(Enumerated) :
              LET entry == result.device_results[i]
                  failed == ~StoreReachable \/ ~request.store[i].success
              IN  IF failed
                  THEN /\ entry.status = "error"
                       /\ entry.device_uuid = Enumerated[i].uidOnFmc
                  ELSE LET own == check_device_last_event(ExpectedStream,
                                      Enumerated[i].uidOnFmc, Enumerated[i].name,
                                      request.store[i], request.current_epoch)
                       IN  IF own.success THEN entry = own
                           ELSE entry = ErrorEntry(request.op, Enumerated[i].name,
                                                   Enumerated[i].uidOnFmc, own)

\* the lookup of the first device failed and the second device was found recent
C6_Witness ==
    /\ Troubleshot \/ FleetChecked
    /\ "device_results" \in DOMAIN result
    /\ Len(result.device_results) >= 2
    /\ Len(request.store) >= 2
    /\ ~request.store[1].success
    /\ request.store[2].success
    /\ result.device_results[1].status = "error"
    /\ result.device_results[2].status = "events_recent"

\* C7: when the directory search answers with zero devices troubleshoot_device
\* succeeds with status device_not_found, names the criteria, and makes no store
\* query, with or without a stream id.
C7_NoMatchIsDeviceNotFound ==
    (Troubleshot /\ DirectoryAnswered /\ Listed = <<>>) =>
        /\ result.success
        /\ "status" \in DOMAIN result
        /\ result.status = "device_not_found"
        /\ result.message[2] = request.device_criteria
        /\ StoreCalls = <<>>

\* no device matched and no stream id was given or configured
C7_Witness ==
    /\ Troubleshot
    /\ DirectoryAnswered
    /\ Listed = <<>>
    /\ ~StreamAvailable
    /\ result.status = "device_not_found"

\* C8: in check_all_devices_status, and in troubleshoot_device once the search has
\* given a device to check, every store query uses the stream id argument when one
\* is given and the configured default otherwise; with neither, the call fails,
\* carries no device results and makes no store query.
C8_StreamIdResolution ==
    (\/ FleetChecked
     \/ Troubleshot /\ DirectoryAnswered /\ Enumerated # <<>>) =>
        IF StreamAvailable
        THEN /\ \A i \in 1..Len(StoreCalls) : StoreCalls[i].partition_value = ExpectedStream
             /\ "device_results" \in DOMAIN result => result.stream_id = ExpectedStream
        ELSE /\ ~result.success
             /\ "device_results" \notin DOMAIN result
             /\ StoreCalls = <<>>

\* no stream id argument: the store was queried with the configured default
C8_Witness ==
    /\ FleetChecked \/ Troubleshot
    /\ request.stream_id \in {None, Some("")}
    /\ StoreCalls # <<>>
    /\ StoreCalls[1].partition_value = Some(default_stream_id)
    /\ result.success

\* C9: a troubleshoot_device result with device results is healthy exactly when
\* every entry counted in devices_checked is events_recent, else issues_detected.
C9_HealthyIffAllRecent ==
    (Troubleshot /\ result.success /\ "device_results" \in DOMAIN result) =>
        /\ result.devices_checked = Len(result.device_results)
        /\ result.overall_status \in {"healthy", "issues_detected"}
        /\ (result.overall_status = "healthy") <=>
              \A i \in 1..result.devices_checked :
                 result.device_results[i].status = "events_recent"

\* two devices were checked, one recent and one not, and issues were detected
C9_Witness ==
    /\ Troubleshot
    /\ "device_results" \in DOMAIN result
    /\ result.devices_checked = 2
    /\ result.device_results[1].status = "events_recent"
    /\ result.device_results[2].status # "events_recent"
    /\ result.overall_status = "issues_detected"

\* the entries of the result that are events_recent
RecentEntries ==
    Cardinality({i \in 1..Len(result.device_results) :
                    result.device_results[i].status = "events_recent"})

\* C10: in a check_all_devices_status summary healthy_percentage (kept in
\* hundredths of a percent) is recent / total * 100 rounded to two decimals, and
\* overall_status is healthy exactly when 100 * recent > 80 * total.
C10_HealthyAboveEightyPercent ==
    (FleetChecked /\ result.success /\ "summary" \in DOMAIN result) =>
        LET total == result.devices_checked
            recent == RecentEntries
            hundredths == result.summary.healthy_percentage
        IN  /\ total = Len(result.device_results)
            /\ total > 0
            /\ result.summary.devices_with_recent_events = recent
            /\ 2 * (hundredths * total - 10000 * recent) <= total
            /\ 2 * (10000 * recent - hundredths * total) <= total
            /\ (result.overall_status = "healthy") <=>
                  (100 * recent > HealthyThresholdPercent * total)
            /\ result.overall_status \in {"healthy", "issues_detected"}

\* exactly 80 percent: four of five devices recent, issues detected
C10_Witness ==
    /\ FleetChecked
    /\ "summary" \in DOMAIN result
    /\ result.devices_checked = 5
    /\ RecentEntries = 4
    /\ result.summary.healthy_percentage = 8000
    /\ result.overall_status = "issues_detected"

----------------------------------------------------------------------------
(* Properties of the fleet summary and of the entries *)

\* the entries of the result with the given status
EntriesWith(status) ==
    Cardinality({i \in 1..Len(result.device_results) :
                    result.device_results[i].status = status})

\* C11: in a check_all_devices_status result every entry is recent, stale,
\* no_events_ever, no_uuid or error, and the counts of these five partitions add up
\* to devices_checked.
C11_CountsSumToDevicesChecked ==
    (FleetChecked /\ result.success /\ "summary" \in DOMAIN result) =>
        /\ \A i \in 1..Len(result.device_results) :
              result.device_results[i].status \in
                  {"events_recent", "events_stale", "no_events_ever", "no_uuid", "error"}
        /\ result.summary.devices_with_recent_events
             + result.summary.devices_with_stale_events
             + result.summary.devices_with_no_events
             + result.summary.devices_with_errors
             + EntriesWith("no_uuid") = result.devices_checked

\* the positions of the recommendation lines with the given text
Lines(text) ==
    {i \in 1..Len(result.recommendations) : result.recommendations[i][2] = text}

NeverSentLine == "devices have never sent events"
StaleLine == "devices have stale events"
AllHealthyLine == "All devices are sending recent events to SAL - system is healthy"

\* C12: the never-sent line is there iff some entry is no_events_ever and carries
\* that count, the stale line is there iff some entry is events_stale and carries
\* that count, the all-healthy line is there iff both counts are zero, no line is
\* there twice, no other line is there, and never-sent comes before stale.
C12_RecommendationsFollowCounts ==
    (FleetChecked /\ result.success /\ "recommendations" \in DOMAIN result) =>
        LET never == EntriesWith("no_events_ever")
            stale == EntriesWith("events_stale")
        IN  /\ Cardinality(Lines(NeverSentLine)) = IF never > 0 THEN 1 ELSE 0
            /\ Cardinality(Lines(StaleLine)) = IF stale > 0 THEN 1 ELSE 0
            /\ Cardinality(Lines(AllHealthyLine)) = IF never = 0 /\ stale = 0 THEN 1 ELSE 0
            /\ \A i \in Lines(NeverSentLine) : result.recommendations[i][1] = never
            /\ \A i \in Lines(StaleLine) : result.recommendations[i][1] = stale
            /\ \A i \in Lines(NeverSentLine), j \in Lines(StaleLine) : i < j
            /\ Len(result.recommendations)
                 = Cardinality(Lines(NeverSentLine) \cup Lines(StaleLine)
                               \cup Lines(AllHealthyLine))

\* both lines are there: two devices never sent events and one is stale
C12_Witness ==
    /\ FleetChecked
    /\ "recommendations" \in DOMAIN result
    /\ EntriesWith("no_events_ever") = 2
    /\ EntriesWith("events_stale") = 1
    /\ Len(result.recommendations) = 2

\* the call got as far as the list of devices and the list was empty because the
\* directory listed no device or because limit is 0
EmptyFleet ==
    /\ FleetChecked
    /\ DirectoryAnswered
    /\ StreamAvailable
    /\ Listed = <<>> \/ request.limit = 0

\* C13 as claimed: over an empty device set the result reports devices_checked = 0
\* and healthy_percentage = 0.
C13_EmptyFleetReportsZero ==
    EmptyFleet =>
        /\ result.success
        /\ "devices_checked" \in DOMAIN result
        /\ result.devices_checked = 0
        /\ result.summary.healthy_percentage = 0

\* C13 as amended: over an empty device set the call succeeds with status
\* no_devices and a message, and carries no devices_checked, no summary and no
\* device results.
C13_EmptyFleetIsNoDevices ==
    EmptyFleet =>
        /\ result.success
        /\ "status" \in DOMAIN result
        /\ result.status = "no_devices"
        /\ "message" \in DOMAIN result
        /\ "devices_checked" \notin DOMAIN result
        /\ "summary" \notin DOMAIN result
        /\ "device_results" \notin DOMAIN result

\* the directory listed devices and limit 0 left none of them
C13_Witness ==
    /\ EmptyFleet
    /\ Listed # <<>>
    /\ request.limit = 0
    /\ result.status = "no_devices"

\* the number of devices a check_all_devices_status result stands for
DevicesChecked == IF "devices_checked" \in DOMAIN result THEN result.devices_checked ELSE 0

\* C17: check_all_devices_status never checks more than limit devices, and checks
\* exactly limit devices when the directory listing holds at least limit devices.
C17_ChecksUpToLimit ==
    (FleetChecked /\ DirectoryAnswered /\ StreamAvailable /\ request.limit >= 0) =>
        /\ DevicesChecked <= request.limit
        /\ Len(Listed) >= request.limit => DevicesChecked = request.limit

\* the per-device entries of the result of any of the three operations
Entries ==
    IF pc # "done" THEN <<>>
    ELSE IF "device_results" \in DOMAIN result THEN result.device_results
    ELSE IF request.op = "check_device_last_event" /\ result.success THEN <<result>>
    ELSE <<>>

\* C18: every per-device entry carries a message.
C18_EveryEntryHasMessage ==
    \A i \in 1..Len(Entries) : "message" \in DOMAIN Entries[i]

\* C19: an entry is no_events_ever only if the store answered successfully with
\* zero records; a lookup that failed or could not be made gives the entry error
\* in a batch and a failure in the direct check.
C19_FailedLookupIsNotNoEvents ==
    /\ Checked =>
          LET failed == request.store = <<>> \/ ~request.store[1].success
          IN  /\ failed => ~result.success
              /\ (result.success /\ result.status = "no_events_ever") =>
                    request.store[1].items = <<>>
    /\ ((Troubleshot \/ FleetChecked) /\ "device_results" \in DOMAIN result) =>
          /\ StoreReachable => Len(request.store) = Len(result.device_results)
          /\ \A i \in 1..Len(result.device_results) :
                LET failed == ~StoreReachable \/ ~request.store[i].success
                IN  /\ failed => result.device_results[i].status = "error"
                    /\ result.device_results[i].status = "no_events_ever" =>
                          (~failed /\ request.store[i].items = <<>>)

\* in one batch a lookup failed and another found no record
C19_Witness ==
    /\ Troubleshot \/ FleetChecked
    /\ "device_results" \in DOMAIN result
    /\ Len(request.store) >= 2
    /\ ~request.store[1].success
    /\ result.device_results[1].status = "error"
    /\ request.store[2].success
    /\ result.device_results[2].status = "no_events_ever"

----------------------------------------------------------------------------
(* Properties of the dispatch *)

Dispatched(operation) ==
    pc = "done" /\ request.op = "process_request" /\ request.operation = operation

\* C14: the direct check with an empty stream id (and no default, where one
\* applies) or an empty device id returns a failure and sends no query to the
\* store, whether it comes through the check_device_events dispatch or as a call
\* of check_device_last_event.
C14_EmptyIdsFailWithoutQuery ==
    /\ (Dispatched("check_device_events")
          /\ \/ ~Truthy(request.kwargs.stream_id) /\ default_stream_id = ""
             \/ ~Truthy(request.kwargs.device_uuid)) =>
          (~result.success /\ "status" \notin DOMAIN result /\ StoreCalls = <<>>)
    /\ (Checked /\ (~Truthy(request.stream_id) \/ ~Truthy(request.device_uuid))) =>
          (~result.success /\ "status" \notin DOMAIN result /\ StoreCalls = <<>>)

\* C15: an operation that is none of troubleshoot_device, check_all_devices and
\* check_device_events gets a failure that names these three, and neither the
\* directory nor the store is called.
C15_UnsupportedOperationFails ==
    \A operation \in Operations :
       (Dispatched(operation)
          /\ operation \notin {"troubleshoot_device", "check_all_devices",
                               "check_device_events"}) =>
          /\ ~result.success
          /\ "available" \in DOMAIN result
          /\ {result.available[i] : i \in 1..Len(result.available)}
               = {"troubleshoot_device", "check_all_devices", "check_device_events"}
          /\ calls = <<>>

\* an unknown operation came with arguments while both collaborators were there
C15_Witness ==
    /\ Dispatched("restart_device")
    /\ scc_tool
    /\ StoreReachable
    /\ request.kwargs.device_uuid = Some("u1")
    /\ ~result.success

\* C16: the troubleshoot_device dispatch fails with no directory call when
\* device_criteria and device_name are both absent or empty; otherwise it is the
\* call of troubleshoot_device with device_criteria when that is not empty and
\* with device_name otherwise.
C16_CriteriaOrDeviceName ==
    Dispatched("troubleshoot_device") =>
        LET criteria == request.kwargs.device_criteria
            name == request.kwargs.device_name
            chosen == IF Truthy(criteria) THEN criteria ELSE name
        IN  IF ~Truthy(criteria) /\ ~Truthy(name)
            THEN /\ ~result.success
                 /\ result.error = "device_criteria or device_name is required"
                 /\ calls = <<>>
            ELSE /\ scc_tool =>
                       /\ calls # <<>>
                       /\ calls[1] = [tool |-> "scc", operation |-> "find",
                                      search_term |-> chosen]
                 /\ result = troubleshoot_device(chosen, request.kwargs.stream_id,
                                 IF request.scc = <<>> THEN DirectoryFailure
                                 ELSE request.scc[1],
                                 request.store, request.current_epoch)

\* both were given and the directory was searched for device_criteria
C16_Witness ==
    /\ Dispatched("troubleshoot_device")
    /\ request.kwargs.device_criteria = Some("Paradise")
    /\ request.kwargs.device_name = Some("fw")
    /\ calls # <<>>
    /\ calls[1].tool = "scc"
    /\ calls[1].search_term = Some("Paradise")
    /\ result.success

----------------------------------------------------------------------------
(* Properties of the directory failures *)

\* a batch operation, called as it is or through process_request
BatchDone ==
    \/ Troubleshot
    \/ FleetChecked
    \/ Dispatched("troubleshoot_device")
    \/ Dispatched("check_all_devices")

\* one of the calls of list_devices made for the request failed
DirectoryCallFailed ==
    \E i \in 1..Len(request.api) : ~request.api[i].success

\* C20: when a directory call made for the search or the listing fails,
\* troubleshoot_device and check_all_devices_status return a failure without
\* per-device entries, and neither device_not_found nor an empty fleet.
C20_DirectoryFailureIsFailure ==
    (BatchDone /\ DirectoryCallFailed) =>
        /\ ~result.success
        /\ "device_results" \notin DOMAIN result
        /\ "status" \notin DOMAIN result

----------------------------------------------------------------------------
(* Properties of the minutes of a report *)

\* C21: a report carries minutes_since_last_event exactly when the record it was
\* made from has a timestamp that int() accepts, a report made without a record
\* carries none, and the minutes a report carries are never negative.
C21_MinutesIffValidAndNonNegative ==
    (Checked /\ result.success) =>
        /\ result.minutes_since_last_event # None
             <=> (RecordFound /\ TimestampInt(FoundTimestamp) # None)
        /\ result.minutes_since_last_event # None =>
             result.minutes_since_last_event[1] >= 0

----------------------------------------------------------------------------
(* Properties of the directory search *)

\* find_device filtered the full listing itself: the search of the API found
\* nothing and the listing was answered
FilteredLocally ==
    /\ Troubleshot \/ Dispatched("troubleshoot_device")
    /\ Len(request.api) = 2
    /\ request.api[2].success
    /\ calls # <<>>
    /\ calls[1].tool = "scc"
    /\ calls[1].operation = "find"

\* the term is in one of the searched attributes that the device has
MatchesTerm(device, search_term) ==
    \E k \in 1..Len(SearchedAttributes) :
       /\ device[SearchedAttributes[k]] # None
       /\ Find(Lower(Characters(device[SearchedAttributes[k]][1])),
               Lower(Characters(search_term[1]))) # -1

\* C22: when a non-empty search term matches no device of the inventory, devices
\* without a name, serial, deviceType, softwareVersion or uid included, find_device
\* returns a successful result with zero devices.
C22_NoMatchIsSuccessWithZero ==
    (FilteredLocally
       /\ \A i \in 1..Len(request.api[2].items) :
             ~MatchesTerm(request.api[2].items[i], calls[1].search_term)) =>
        /\ request.scc[1].success
        /\ request.scc[1].items = <<>>
        /\ request.scc[1].devices_found = 0

----------------------------------------------------------------------------
(* Properties of the path of one device check *)

\* the terminal states a device check can end in after the store's answer, by the
\* transitions Resolved -> {StoreError | NoRecord | RecordFound} and
\* RecordFound -> {InvalidTimestamp | Recent | Stale}
TerminalsAfter(answered, answer) ==
    IF ~answered \/ ~answer.success THEN {"StoreError"}
    ELSE IF answer.items = <<>> THEN {"NoRecord"}
    ELSE {"InvalidTimestamp", "Recent", "Stale"}

\* the status that stands for a terminal state
StatusOf(terminal) ==
    CASE terminal = "NoUuid" -> "no_uuid"
      [] terminal = "StoreError" -> "error"
      [] terminal = "NoRecord" -> "no_events_ever"
      [] terminal = "InvalidTimestamp" -> "invalid_timestamp"
      [] terminal = "Recent" -> "events_recent"
      [] terminal = "Stale" -> "events_stale"

\* C26: the status of every per-device entry is one of the six values, and it is
\* the status of a terminal state that the transitions allow after the answer of
\* the store: error after a failed lookup, no_events_ever after an answer without
\* a record, and invalid_timestamp, events_recent or events_stale after a record;
\* the direct check ends in the same way, with a failure for StoreError.
C26_EntryFollowsTransitions ==
    /\ ((Troubleshot \/ FleetChecked) /\ "device_results" \in DOMAIN result) =>
          \A i \in 1..Len(result.device_results) :
             LET entry == result.device_results[i] IN
             IF entry.status = "no_uuid" THEN entry.device_uuid = None
             ELSE /\ StoreReachable => i <= Len(request.store)
                  /\ \E terminal \in TerminalsAfter(StoreReachable,
                                        IF StoreReachable /\ i <= Len(request.store)
                                        THEN request.store[i] ELSE StoreFailure) :
                        entry.status = StatusOf(terminal)
    /\ Checked =>
          LET terminals == TerminalsAfter(request.store # <<>>,
                               IF request.store # <<>> THEN request.store[1]
                               ELSE StoreFailure)
          IN  IF terminals = {"StoreError"} THEN ~result.success
              ELSE /\ result.success
                   /\ \E terminal \in terminals : result.status = StatusOf(terminal)

----------------------------------------------------------------------------
(* Properties of the calls of one invocation *)

\* the directory requests among the calls made
DirectoryCalls == SelectSeq(calls, LAMBDA c : c.tool = "scc")

----------------------------------------------------------------------------
(* Properties of the aggregate *)

\* the list with the entries at i and j exchanged
Exchanged(entries, i, j) ==
    [k \in 1..Len(entries) |->
        IF k = i THEN entries[j] ELSE IF k = j THEN entries[i] ELSE entries[k]]

\* the part of a fleet result that is computed from all entries together
Aggregate(fleet) ==
    [devices_checked |-> fleet.devices_checked, summary |-> fleet.summary,
     overall_status |-> fleet.overall_status, recommendations |-> fleet.recommendations]

\* C28: the counts, healthy_percentage, overall_status and the recommendations of
\* a fleet result are those of the same entries in any other order: exchanging
\* any two entries leaves them as they are, and every permutation is a chain of
\* such exchanges.
C28_AggregateIsOrderIndependent ==
    (FleetChecked /\ result.success /\ "device_results" \in DOMAIN result) =>
        \A i \in 1..Len(result.device_results), j \in 1..Len(result.device_results) :
           Aggregate(FleetSummary(result.stream_id,
                                  Exchanged(result.device_results, i, j)))
             = Aggregate(result)

\* the entries are a recent, a stale, a never-seen, an invalid and a failed one,
\* so that every exchange changes the order
C28_Witness ==
    /\ FleetChecked
    /\ result.success
    /\ "device_results" \in DOMAIN result
    /\ Len(result.device_results) = 5
    /\ result.device_results[1].status = "events_recent"
    /\ result.device_results[2].status = "events_stale"
    /\ result.device_results[3].status = "no_events_ever"
    /\ result.device_results[4].status = "invalid_timestamp"
    /\ result.device_results[5].status = "error"
    /\ Len(result.recommendations) = 2


\* C29: the all-healthy recommendation is in a fleet result only when every entry
\* is recent, and never together with overall_status issues_detected.
C29_HealthyLineOnlyWhenAllRecent ==
    (FleetChecked /\ result.success /\ "recommendations" \in DOMAIN result
       /\ Lines(AllHealthyLine) # {}) =>
        /\ \A i \in 1..Len(result.device_results) :
              Get(result.device_results[i], "is_recent", FALSE)
        /\ result.overall_status # "issues_detected"


----------------------------------------------------------------------------
(* Properties of the conversation memory *)

\* the last n elements of a sequence, all of them when it has fewer
LastOf(seq, n) == SubSeq(seq, IF Len(seq) > n THEN Len(seq) - n + 1 ELSE 1, Len(seq))

\* the ids of the rows messages reads for session, in the order it reads them
StoredIds(rows, session) ==
    LET stored == StoredRows(rows, session) IN [i \in 1 .. Len(stored) |-> stored[i].id]

\* the ids of the rows of session in insertion order
InsertedIds(rows, session) ==
    LET inserted == WhereSession(rows, session) IN
    [i \in 1 .. Len(inserted) |-> inserted[i].id]

\* the step is a call of add_message: it returned and a row was inserted
AddedMessage ==
    /\ last_call' # <<>>
    /\ last_call'.op = "add_message"
    /\ next_id' # next_id

\* the step is a successful exchange recorded through one of the chat paths
RecordedExchange ==
    /\ last_call' # <<>>
    /\ last_call'.op \in {"add_to_conversation", "_handle_llm_chat", "chat_with_memory_chain"}
    /\ last_call'.success
    /\ next_id' # next_id

\* the step is a call of clear_conversation, or leaves what it cleared as it is
ClearedConversation ==
    /\ last_call' # <<>>
    /\ last_call'.op = "clear_conversation"

\* C23: a successful exchange appends exactly two messages, the user's and then the
\* assistant's, to the history of its session while the limit leaves room: message_count
\* grows by 2 and exchange_count by 1, for every session, the active one included
C23_ExchangeAppendsTwoMessages ==
    [][RecordedExchange =>
          LET session == last_call'.session_id
              before == get_conversation_summary(chat_messages, Some(session),
                                                 default_session_id)
              after == get_conversation_summary(chat_messages', Some(session),
                                                default_session_id')
              recorded == get_conversation_history(chat_messages', Some(session),
                                                   default_session_id')
          IN before.message_count + 2 <= max_messages =>
                 /\ after.message_count = before.message_count + 2
                 /\ after.exchange_count = before.exchange_count + 1
                 /\ recorded[after.message_count - 1].role = "user"
                 /\ recorded[after.message_count].role = "assistant"]_vars

\* C24: after clear_conversation(S) the history of S is empty (message_count = 0,
\* has_history false) and the messages of every other session are unchanged
C24_ClearEmptiesOnlyItsSession ==
    [][ClearedConversation =>
          LET session == last_call'.session_id
              summary == get_conversation_summary(chat_messages', Some(session),
                                                  default_session_id')
          IN /\ summary.message_count = 0
             /\ ~summary.has_history
             /\ \A other \in SessionIds \ {session} :
                    /\ messages(chat_messages', other) = messages(chat_messages, other)
                    /\ StoredRows(chat_messages', other) = StoredRows(chat_messages, other)]_vars

\* clear_conversation emptied the active session, which had messages, while the other
\* session has messages
C24_Witness ==
    /\ last_call # <<>>
    /\ last_call.op = "clear_conversation"
    /\ last_call.session_id = default_session_id
    /\ last_call.stored_before > 0
    /\ Stored(last_call.session_id) = 0
    /\ \E other \in SessionIds \ {last_call.session_id} : Stored(other) > 0

C30_ExchangeChangesOnlyItsSession ==
    [][RecordedExchange =>
          \A other \in SessionIds \ {last_call'.session_id} :
              messages(chat_messages', other) = messages(chat_messages, other)]_vars

====
